---- MODULE Spec2Model ----
(***************************************************************************)
(* Execution subsystem of codezone: the ExecutionManager, the TypeScript,  *)
(* Go and PostgreSQL executors, their mutexes, request deadlines, the      *)
(* PostgreSQL connection pool, and the App commands that drive them.       *)
(* Callers are threads; every handler is split at its lock acquisitions    *)
(* and its suspension points (ping, query, subprocess wait, sandbox        *)
(* evaluation), so that interleavings of concurrent callers are explored.  *)
(***************************************************************************)
EXTENDS Integers, Sequences, FiniteSets, TLC

(* ---------------------------------------------------------------------- *)
(* Bounds of the exploration                                               *)
(* ---------------------------------------------------------------------- *)
MaxOps == 2
MaxPools == 2
MaxDbOps == 3
MaxHelperCalls == 1
MaxSourceLines == 3

(* ---------------------------------------------------------------------- *)
(* Program constants                                                       *)
(* ---------------------------------------------------------------------- *)
JavaScript == "javascript"
TypeScript == "typescript"
Go == "go"
PostgreSQL == "postgres"

ExitCodeGoNotInstalled == 150
ExitCodePostgresNotAvailable == 151
ExitCodePostgresConnFailed == 152
ExitCodePostgresQueryError == 153
ExitCodeNodeNotAvailable == 160
ExitCodeTimeout == 124
ExitCodeTranspile == 2
ExitCodeTempFile == 158

\* opts.Timeout handed to every executor by NewApp, in seconds
OptionsTimeout == 15

\* Caller threads (the UI runtime serves each command on a goroutine of its own)
ThreadOrder == <<"t1", "t2", "t3">>
Threads == {ThreadOrder[i] : i \in DOMAIN ThreadOrder}
NoThread == "none"

\* Languages registered by NewExecutionManager
Registered == {TypeScript, Go, PostgreSQL}
\* Language tags a caller may send
Languages == {TypeScript, Go, PostgreSQL, JavaScript}

\* request.timeout values, in seconds (0: the caller gave none)
Timeouts == {0, 20}
NoDeadline == -1

NilConfig == [host |-> "", port |-> 0, database |-> "", username |-> "",
              password |-> "", sslMode |-> "nil"]
CfgA == [host |-> "db-a", port |-> 5432, database |-> "app", username |-> "u",
         password |-> "p", sslMode |-> "disable"]
CfgB == [host |-> "db-b", port |-> 5432, database |-> "app", username |-> "u",
         password |-> "p", sslMode |-> ""]
CfgNoHost == [host |-> "", port |-> 5432, database |-> "app", username |-> "u",
              password |-> "p", sslMode |-> "prefer"]
\* postgresqlConn values carried by a request (NilConfig: the field is absent)
RequestConns == {NilConfig, CfgA, CfgB}
\* configurations handed to SetPostgreSQLConfig and HadleConnection
CommandConfigs == {CfgA, CfgB, CfgNoHost}

\* SQL snippets: empty, a lone comment, a statement with a trailing comment
SqlCodes == {"", "-- c", "SELECT 1 -- one"}
\* TypeScript and Go snippets: empty, or some program text
Snippets == {"", "f()"}

VARIABLES
    platform,       \* build tag of the binary: "unix" or "windows"
    nodeInstalled,  \* whether `node --version` succeeds on the host
    goInstalled,    \* whether exec.LookPath("go") succeeds on the host
    executors,      \* ExecutionManager.executors: language -> executor instance
    emWriter,       \* thread holding ExecutionManager.mu for writing
    pgConfig,       \* PostgreSQLExecutor.config
    pgPool,         \* PostgreSQLExecutor.pool: index into pools, 0 is nil
    pools,          \* every pgxpool.Pool constructed so far: [cfg, open]
    pc,             \* per thread: position in the handler it runs
    req,            \* per thread: the command and its arguments
    ctx,            \* per thread: the request context [deadline, expired]
    ex,             \* per thread: the executor instance fetched from the map
    worker,         \* per thread: the evaluation goroutine of the sandbox
    scratch,        \* per thread: temp dir / temp file owned by the call
    todo,           \* per thread: executors ExecutionManager.Cleanup has yet to visit
    result,         \* per thread: what the command returned
    waited,         \* per thread: the call found the executor's mutex held and parked
    orphans,        \* evaluation goroutines still running after their call returned
    opsStarted,     \* number of commands issued so far
    crashed         \* the process died (use of a disposed isolate)

vars == <<platform, nodeInstalled, goInstalled, executors, emWriter, pgConfig,
          pgPool, pools, pc, req, ctx, ex, worker, scratch, todo, result,
          waited, orphans, opsStarted, crashed>>

envVars == <<platform, nodeInstalled, goInstalled>>
pgVars == <<pgConfig, pgPool, pools>>

(* ---------------------------------------------------------------------- *)
(* Strings (Go package strings)                                            *)
(* ---------------------------------------------------------------------- *)
IsSpace(c) == c \in {" ", "\t", "\n", "\r"}

RECURSIVE TrimLeft(_)
TrimLeft(s) ==
    IF Len(s) > 0 /\ IsSpace(SubSeq(s, 1, 1)) THEN TrimLeft(SubSeq(s, 2, Len(s))) ELSE s

RECURSIVE TrimRight(_)
TrimRight(s) ==
    IF Len(s) > 0 /\ IsSpace(SubSeq(s, Len(s), Len(s)))
    THEN TrimRight(SubSeq(s, 1, Len(s) - 1)) ELSE s

TrimSpace(s) == TrimRight(TrimLeft(s))

HasPrefix(s, prefix) ==
    Len(s) >= Len(prefix) /\ SubSeq(s, 1, Len(prefix)) = prefix

\* strings.Index: position of the first occurrence, counted from 1; 0 when absent
Index(s, sub) ==
    LET hits == {i \in 1..(Len(s) - Len(sub) + 1) : SubSeq(s, i, i + Len(sub) - 1) = sub}
    IN IF hits = {} THEN 0 ELSE CHOOSE i \in hits : \A j \in hits : i <= j

Contains(s, sub) == Index(s, sub) # 0

\* strings.Split on a one-character separator
RECURSIVE Split(_, _)
Split(s, sep) ==
    LET i == Index(s, sep)
    IN IF i = 0 THEN <<s>>
       ELSE <<SubSeq(s, 1, i - 1)>> \o Split(SubSeq(s, i + 1, Len(s)), sep)

RECURSIVE Join(_, _)
Join(parts, sep) ==
    IF Len(parts) = 0 THEN ""
    ELSE IF Len(parts) = 1 THEN parts[1]
    ELSE parts[1] \o sep \o Join(Tail(parts), sep)

UpperChars == <<"A","B","C","D","E","F","G","H","I","J","K","L","M",
                "N","O","P","Q","R","S","T","U","V","W","X","Y","Z">>
LowerChars == <<"a","b","c","d","e","f","g","h","i","j","k","l","m",
                "n","o","p","q","r","s","t","u","v","w","x","y","z">>

LowerChar(c) ==
    IF \E i \in 1..26 : UpperChars[i] = c
    THEN LowerChars[CHOOSE i \in 1..26 : UpperChars[i] = c] ELSE c

RECURSIVE ToLower(_)
ToLower(s) ==
    IF Len(s) = 0 THEN "" ELSE LowerChar(SubSeq(s, 1, 1)) \o ToLower(SubSeq(s, 2, Len(s)))

UpperChar(c) ==
    IF \E i \in 1..26 : LowerChars[i] = c
    THEN UpperChars[CHOOSE i \in 1..26 : LowerChars[i] = c] ELSE c

RECURSIVE ToUpper(_)
ToUpper(s) ==
    IF Len(s) = 0 THEN "" ELSE UpperChar(SubSeq(s, 1, 1)) \o ToUpper(SubSeq(s, 2, Len(s)))

(* ---------------------------------------------------------------------- *)
(* formatDuration                                                          *)
(* ---------------------------------------------------------------------- *)
RECURSIVE Pow10(_)
Pow10(n) == IF n = 0 THEN 1 ELSE 10 * Pow10(n - 1)

\* The decimal exponent of ns / 10^k, for ns >= 10^k
RECURSIVE Exponent(_, _, _)
Exponent(ns, k, e) ==
    IF e < 9 - k /\ Pow10(k + e + 1) <= ns THEN Exponent(ns, k, e + 1) ELSE e

\* The digits after the point, trailing zeros dropped
Fraction(a, b) ==
    IF b # 0 THEN "." \o ToString(a) \o ToString(b)
    ELSE IF a # 0 THEN "." \o ToString(a) ELSE ""

\* fmt.Sprintf("%.3g", ns / 10^k) for ns >= 10^k: three significant digits,
\* rounded half to even, trailing zeros dropped, exponent form from 10^3 on
FormatG3(ns, k) ==
    LET e0 == Exponent(ns, k, 0)
        unit == Pow10(k + e0 - 2)
        q == ns \div unit
        r == ns % unit
        m0 == IF 2 * r > unit \/ (2 * r = unit /\ q % 2 = 1) THEN q + 1 ELSE q
        m == IF m0 = 1000 THEN 100 ELSE m0
        e == IF m0 = 1000 THEN e0 + 1 ELSE e0
        d1 == m \div 100
        d2 == (m \div 10) % 10
        d3 == m % 10
    IN IF e >= 3
       THEN ToString(d1) \o Fraction(d2, d3) \o "e+"
            \o (IF e < 10 THEN "0" ELSE "") \o ToString(e)
       ELSE IF e = 2 THEN ToString(m)
       ELSE IF e = 1 THEN ToString(m \div 10) \o Fraction(d3, 0)
       ELSE ToString(d1) \o Fraction(d2, d3)

\* formatDuration of a duration given in nanoseconds
\* A formatter that changes unit one nanosecond late
formatDurationLateSwitch(d) ==
    IF d <= 1000 THEN ToString(d) \o "ns"
    ELSE IF d <= 1000000 THEN FormatG3(d, 3) \o "μs"
    ELSE IF d <= 1000000000 THEN FormatG3(d, 6) \o "ms"
    ELSE FormatG3(d, 9) \o "s"

formatDuration(d) ==
    IF d < 1000 THEN ToString(d) \o "ns"
    ELSE IF d < 1000000 THEN FormatG3(d, 3) \o "μs"
    ELSE IF d < 1000000000 THEN FormatG3(d, 6) \o "ms"
    ELSE FormatG3(d, 9) \o "s"

(* ---------------------------------------------------------------------- *)
(* PostgreSQLExecutor: pure helpers                                        *)
(* ---------------------------------------------------------------------- *)
\* A cleaning of one line that drops blank lines only and keeps comments
CleanLineKeepsComments(raw) ==
    LET line == TrimSpace(raw)
    IN IF line = "" THEN <<>> ELSE <<line>>

\* A cleaning of one line that cuts an inline comment and keeps the blanks
\* that stood before it
CleanLineCutsOnly(raw) ==
    LET line == TrimSpace(raw)
    IN IF line = "" \/ HasPrefix(line, "--") THEN <<>>
       ELSE LET idx == Index(line, "--")
            IN IF idx # 0 THEN <<SubSeq(line, 1, idx - 1)>> ELSE <<line>>

\* The loop body of prepareSQLCode for one line: <<>> when the line is dropped
CleanLine(raw) ==
    LET line == TrimSpace(raw)
    IN IF line = "" \/ HasPrefix(line, "--") THEN <<>>
       ELSE LET idx == Index(line, "--")
            IN IF idx # 0
               THEN LET cut == TrimSpace(SubSeq(line, 1, idx - 1))
                    IN IF cut = "" THEN <<>> ELSE <<cut>>
               ELSE <<line>>

RECURSIVE CleanLines(_)
CleanLines(lines) ==
    IF Len(lines) = 0 THEN <<>> ELSE CleanLine(Head(lines)) \o CleanLines(Tail(lines))

prepareSQLCode(code) == Join(CleanLines(Split(code, "\n")), "\n")

detectQueryType(sqlCode) ==
    LET trimmed == TrimSpace(ToUpper(sqlCode))
    IN CASE HasPrefix(trimmed, "SELECT") -> "SELECT"
         [] HasPrefix(trimmed, "INSERT") -> "INSERT"
         [] HasPrefix(trimmed, "UPDATE") -> "UPDATE"
         [] HasPrefix(trimmed, "DELETE") -> "DELETE"
         [] HasPrefix(trimmed, "CREATE") -> "CREATE"
         [] HasPrefix(trimmed, "DROP") -> "DROP"
         [] HasPrefix(trimmed, "ALTER") -> "ALTER"
         [] HasPrefix(trimmed, "WITH") -> "WITH"
         [] OTHER -> "OTHER"

isSelectQuery(queryType) ==
    LET trimmed == TrimSpace(ToUpper(queryType))
    IN HasPrefix(trimmed, "SELECT") \/ HasPrefix(trimmed, "WITH")

\* What pool.Query may bring back: the field descriptions and the rows, each
\* row holding one value per field (rows.Values())
ServerRowSets ==
    {[columns |-> <<"n">>, rows |-> <<>>],
     [columns |-> <<"a", "b">>, rows |-> << <<1, 2>>, <<3, 4>> >>]}

\* commandTag.RowsAffected() of pool.Exec
CommandTags == {0, 3}

\* result.SQLResult of a result that carries none
NoSqlResult == [queryType |-> "", columns |-> <<>>, rows |-> <<>>, rowsAffected |-> 0]

\* executeSQL whose RowsAffected stays at zero for a statement that returns rows
executeSQLCountsNoRows(sqlCode, rowSet, tag) ==
    LET queryType == detectQueryType(sqlCode)
    IN IF isSelectQuery(queryType)
       THEN [queryType |-> queryType, columns |-> rowSet.columns,
             rows |-> rowSet.rows, rowsAffected |-> 0]
       ELSE [queryType |-> queryType, columns |-> <<"Rows Affected">>,
             rows |-> << <<tag>> >>, rowsAffected |-> tag]

\* executeSQL when the server answers: rowSet is the answer to pool.Query,
\* tag the one to pool.Exec
executeSQL(sqlCode, rowSet, tag) ==
    LET queryType == detectQueryType(sqlCode)
    IN IF isSelectQuery(queryType)
       THEN [queryType |-> queryType, columns |-> rowSet.columns,
             rows |-> rowSet.rows, rowsAffected |-> Len(rowSet.rows)]
       ELSE [queryType |-> queryType, columns |-> <<"Rows Affected">>,
             rows |-> << <<tag>> >>, rowsAffected |-> tag]

isAvailableInternal(config) ==
    /\ config # NilConfig
    /\ config.host # ""
    /\ config.database # ""
    /\ config.username # ""

\* The connection string a pool is built from
buildConnectionString(config) ==
    LET sslMode == IF config.sslMode = "" THEN "prefer" ELSE config.sslMode
    IN "host=" \o config.host \o " port=" \o ToString(config.port)
       \o " dbname=" \o config.database \o " user=" \o config.username
       \o " password=" \o config.password \o " sslmode=" \o sslMode

\* pgxpool.ParseConfig accepts the connection string
ParseConfigOk(config) == config.sslMode \in {"", "disable", "prefer", "require"}

\* pool.Close() on the pool numbered id (0: no pool)
ClosePool(ps, id) == IF id = 0 THEN ps ELSE [ps EXCEPT ![id].open = FALSE]

\* ensureConnection on the executor state (config, pool, ps). pingOld, newOk and
\* pingNew are the outcomes of Ping on the held pool, of pgxpool.NewWithConfig
\* and of Ping on the new pool. Yields the new pool field, the pools and the error.
ensureConnection(config, pool, ps, pingOld, newOk, pingNew) ==
    IF pool # 0 /\ pingOld
    THEN [pool |-> pool, pools |-> ps, err |-> ""]
    ELSE LET closed == ClosePool(ps, pool)
         IN IF config = NilConfig
            THEN [pool |-> 0, pools |-> closed,
                  err |-> "no PostgreSQL configuration provided"]
            ELSE IF ~ParseConfigOk(config)
            THEN [pool |-> 0, pools |-> closed,
                  err |-> "invalid connection configuration"]
            ELSE IF ~newOk
            THEN [pool |-> 0, pools |-> closed,
                  err |-> "failed to create connection pool"]
            ELSE IF ~pingNew
            THEN [pool |-> 0,
                  pools |-> Append(closed, [conn |-> buildConnectionString(config),
                                            open |-> FALSE]),
                  err |-> "failed to ping database"]
            ELSE [pool |-> Len(closed) + 1,
                  pools |-> Append(closed, [conn |-> buildConnectionString(config),
                                            open |-> TRUE]),
                  err |-> ""]

(* ---------------------------------------------------------------------- *)
(* Records                                                                 *)
(* ---------------------------------------------------------------------- *)
NoReq == [op |-> "none", lang |-> "", timeout |-> 0, conn |-> NilConfig, code |-> ""]
NoCtx == [deadline |-> NoDeadline, expired |-> FALSE]
\* kind: "none" (nothing returned yet), "result" (an ExecutionResult),
\* "error" (the command returned an error), "ok" (the command returned nil/true)
NoResult == [kind |-> "none", exitCode |-> 0, error |-> "", output |-> "",
             language |-> "", timed |-> FALSE, sql |-> FALSE,
             sqlResult |-> NoSqlResult,
             duration |-> 0, durationString |-> ""]

\* time.Since(start) of a call, in nanoseconds
Elapsed == 1500000

\* &ExecutionResult{Language: lang} with the fields a return path assigns;
\* timed says whether Duration and DurationString were assigned on that path
ExecutionResult(lang, exitCode, error, output, timed, sql) ==
    [kind |-> "result", exitCode |-> exitCode, error |-> error, output |-> output,
     language |-> lang, timed |-> timed, sql |-> sql,
     sqlResult |-> NoSqlResult,
     duration |-> IF timed THEN Elapsed ELSE 0,
     durationString |-> IF timed THEN formatDuration(Elapsed) ELSE ""]

CommandError(msg) == [NoResult EXCEPT !.kind = "error", !.error = msg]
CommandOk == [NoResult EXCEPT !.kind = "ok"]

(* ---------------------------------------------------------------------- *)
(* Locks                                                                   *)
(* ---------------------------------------------------------------------- *)
\* positions at which a thread is inside Execute of an executor, holding its mutex
InsidePC == {"pg_ensure", "pg_query", "ts_node", "ts_eval", "go_run"}

\* positions at which a call waits on the network, a subprocess or the sandbox
SuspendedPC == {"pg_ensure", "pg_query", "ts_node", "ts_eval", "go_run"}

\* Execute without js.mu.Lock() / g.mu.Lock() / p.mu.Lock(): the mutex never holds anyone back
MuNeverHeld(lang, inst) == TRUE

\* sync.Mutex of the executor instance <<lang, inst>>: nobody is inside it
MuFree(lang, inst) ==
    \A u \in Threads : ~(pc[u] \in InsidePC /\ req[u].op = "Execute"
                          /\ req[u].lang = lang /\ ex[u] = inst)

\* ExecutionManager.mu can be taken for reading or writing
EmFree == emWriter = NoThread

(* ---------------------------------------------------------------------- *)
(* Initial state: NewApp, NewExecutionManager                              *)
(* ---------------------------------------------------------------------- *)
\* The range loop of Cleanup: the executors it has yet to visit and those it
\* has visited, in the order of the visits
NoTodo == [left |-> {}, visited |-> <<>>]

\* The state after NewApp/startup of one of the builds in builds
InitOn(builds) ==
    /\ platform \in builds
    /\ nodeInstalled \in BOOLEAN
    /\ (platform = "unix" => nodeInstalled = FALSE)
    /\ goInstalled \in BOOLEAN
    /\ executors = [l \in Registered |-> 1]
    /\ emWriter = NoThread
    /\ pgConfig = NilConfig
    /\ pgPool = 0
    /\ pools = <<>>
    /\ pc = [t \in Threads |-> "idle"]
    /\ req = [t \in Threads |-> NoReq]
    /\ ctx = [t \in Threads |-> NoCtx]
    /\ ex = [t \in Threads |-> 0]
    /\ worker = [t \in Threads |-> "none"]
    /\ scratch = [t \in Threads |-> "none"]
    /\ todo = [t \in Threads |-> NoTodo]
    /\ result = [t \in Threads |-> NoResult]
    /\ waited = [t \in Threads |-> FALSE]
    /\ orphans = 0
    /\ opsStarted = 0
    /\ crashed = FALSE

\* The builds of the current tree: v8go on unix, goja on windows
Init == InitOn({"unix", "windows"})

\* A thread may issue a command (threads are interchangeable: the first free
\* one takes it)
CanBegin(t, budget) ==
    /\ ~crashed
    /\ pc[t] = "idle"
    /\ \A i, j \in DOMAIN ThreadOrder :
          i < j /\ ThreadOrder[j] = t => pc[ThreadOrder[i]] # "idle"
    /\ opsStarted < budget

Begin(t, r, c, at) ==
    /\ opsStarted' = opsStarted + 1
    /\ req' = [req EXCEPT ![t] = r]
    /\ ctx' = [ctx EXCEPT ![t] = c]
    /\ pc' = [pc EXCEPT ![t] = at]
    /\ UNCHANGED <<ex, worker, scratch, todo, result, waited>>

\* The command returns: its result is with the caller
Return(t, res) ==
    /\ pc' = [pc EXCEPT ![t] = "done"]
    /\ result' = [result EXCEPT ![t] = res]

\* The caller has consumed the result and is free to issue the next command
Forget(t) ==
    /\ ~crashed
    /\ pc[t] = "done"
    /\ pc' = [pc EXCEPT ![t] = "idle"]
    /\ req' = [req EXCEPT ![t] = NoReq]
    /\ ctx' = [ctx EXCEPT ![t] = NoCtx]
    /\ ex' = [ex EXCEPT ![t] = 0]
    /\ result' = [result EXCEPT ![t] = NoResult]
    /\ waited' = [waited EXCEPT ![t] = FALSE]
    /\ todo' = [todo EXCEPT ![t] = NoTodo]
    /\ UNCHANGED <<envVars, executors, emWriter, pgVars, worker, scratch,
                   orphans, opsStarted, crashed>>

(* ---------------------------------------------------------------------- *)
(* ExecutionManager.Execute                                                *)
(* ---------------------------------------------------------------------- *)
\* The deadline of the request context: config.Timeout when positive, else none
RequestDeadline(timeout) == IF timeout > 0 THEN timeout ELSE NoDeadline

\* A caller issues one of the commands in requests, starting at position at
Issue(t, requests, at) ==
    /\ \E r \in requests :
        Begin(t, r,
              IF r.op = "Execute"
              THEN [deadline |-> RequestDeadline(r.timeout), expired |-> FALSE]
              ELSE NoCtx,
              at)
    /\ UNCHANGED <<envVars, executors, emWriter, pgVars, orphans, crashed>>

\* The ExecutionConfig values a caller may pass: postgresqlConn and SQL go
\* with the postgres tag only
ExecuteRequests ==
    {r \in [op : {"Execute"}, lang : Languages, timeout : Timeouts,
            conn : RequestConns, code : SqlCodes \cup Snippets] :
        /\ (r.lang = PostgreSQL => r.code \in SqlCodes)
        /\ (r.lang # PostgreSQL => r.code \in Snippets /\ r.conn = NilConfig)}

ExecuteCall(t) ==
    /\ CanBegin(t, MaxOps)
    /\ Issue(t, ExecuteRequests, "em_rlock")

\* The deadline of a request in flight fires. It is observed at the
\* suspension points only (mu.Lock() does not look at the context), so a
\* deadline that fires earlier is seen as firing on arrival at the first of them
Expire(t) ==
    /\ ~crashed
    /\ pc[t] \in SuspendedPC
    /\ ctx[t].deadline # NoDeadline
    /\ ~ctx[t].expired
    /\ ctx' = [ctx EXCEPT ![t].expired = TRUE]
    /\ UNCHANGED <<envVars, waited, executors, emWriter, pgVars, pc, req, ex, worker,
                   scratch, todo, result, orphans, opsStarted, crashed>>

\* Executor.IsAvailable of the three executors
IsAvailable(lang) ==
    CASE lang = PostgreSQL -> isAvailableInternal(pgConfig)
      [] lang = Go -> goInstalled
      [] OTHER -> TRUE

UnavailableError(lang) == "executor for " \o lang \o " is not available"

\* em.mu.RLock(); executor, exists := em.executors[lang]; em.mu.RUnlock(),
\* and, for the executors whose IsAvailable takes no lock, the availability test
ExecuteLookup(t) ==
    /\ ~crashed
    /\ pc[t] = "em_rlock"
    /\ req[t].op = "Execute"
    /\ EmFree
    /\ IF req[t].lang \notin DOMAIN executors
       THEN /\ Return(t, CommandError(UnavailableError(req[t].lang)))
            /\ UNCHANGED ex
       ELSE /\ ex' = [ex EXCEPT ![t] = executors[req[t].lang]]
            /\ IF req[t].lang = PostgreSQL
               THEN /\ pc' = [pc EXCEPT ![t] =
                             IF req[t].conn # NilConfig THEN "set_config"
                             ELSE "is_available"]
                    /\ UNCHANGED result
               ELSE IF IsAvailable(req[t].lang)
               THEN pc' = [pc EXCEPT ![t] = "ex_lock"] /\ UNCHANGED result
               ELSE Return(t, CommandError(UnavailableError(req[t].lang)))
    /\ UNCHANGED <<envVars, waited, executors, emWriter, pgVars, req, ctx, worker,
                   scratch, todo, orphans, opsStarted, crashed>>

\* SetConfig that stores the configuration and leaves the pool as it is
SetConfigKeepsPool(config) ==
    /\ pgConfig' = config
    /\ UNCHANGED <<pgPool, pools>>

\* PostgreSQLExecutor.SetConfig, under p.mu
SetConfig(config) ==
    /\ pgConfig' = config
    /\ pools' = ClosePool(pools, pgPool)
    /\ pgPool' = 0

\* pgExecutor.SetConfig(config.PostgreSQLConn) of ExecutionManager.Execute
ExecuteSetConfig(t) ==
    /\ ~crashed
    /\ pc[t] = "set_config"
    /\ MuFree(PostgreSQL, ex[t])
    /\ SetConfig(req[t].conn)
    /\ pc' = [pc EXCEPT ![t] = "is_available"]
    /\ UNCHANGED <<envVars, waited, executors, emWriter, req, ctx, ex, worker, scratch,
                   todo, result, orphans, opsStarted, crashed>>

\* if !executor.IsAvailable() { return nil, error } for the PostgreSQL
\* executor, whose IsAvailable takes p.mu
ExecuteIsAvailable(t) ==
    /\ ~crashed
    /\ pc[t] = "is_available"
    /\ (req[t].lang = PostgreSQL => MuFree(PostgreSQL, ex[t]))
    /\ IF IsAvailable(req[t].lang)
       THEN pc' = [pc EXCEPT ![t] = "ex_lock"] /\ UNCHANGED result
       ELSE Return(t, CommandError(UnavailableError(req[t].lang)))
    /\ UNCHANGED <<envVars, waited, executors, emWriter, pgVars, req, ctx, ex, worker,
                   scratch, todo, orphans, opsStarted, crashed>>

(* ---------------------------------------------------------------------- *)
(* PostgreSQLExecutor.Execute                                              *)
(* ---------------------------------------------------------------------- *)
\* From p.mu.Lock() to the call of ensureConnection
PgEnter(t) ==
    /\ IF ~isAvailableInternal(pgConfig)
       THEN Return(t, ExecutionResult(PostgreSQL, ExitCodePostgresNotAvailable,
                      "PostgreSQL connection is not configured or unavailable",
                      "", FALSE, FALSE))
       ELSE IF TrimSpace(prepareSQLCode(req[t].code)) = ""
       THEN Return(t, ExecutionResult(PostgreSQL, ExitCodePostgresQueryError,
                      "No SQL query provided", "", FALSE, FALSE))
       ELSE pc' = [pc EXCEPT ![t] = "pg_ensure"] /\ UNCHANGED result
    /\ UNCHANGED <<pgVars, worker, scratch>>

\* An ensureConnection that asks the manager for the executor, taking
\* em.mu.RLock() while p.mu is held
PgEnsureAsksManager(t) ==
    /\ ~crashed
    /\ pc[t] = "pg_ensure"
    /\ EmFree
    /\ \E pingOld, newOk, pingNew \in BOOLEAN :
        /\ (ctx[t].expired => ~pingOld /\ ~pingNew)
        /\ LET r == ensureConnection(pgConfig, pgPool, pools, pingOld, newOk, pingNew)
           IN /\ Len(r.pools) <= MaxPools
              /\ pgPool' = r.pool
              /\ pools' = r.pools
              /\ IF r.err = ""
                 THEN pc' = [pc EXCEPT ![t] = "pg_query"] /\ UNCHANGED result
                 ELSE Return(t, ExecutionResult(PostgreSQL, ExitCodePostgresConnFailed,
                                "Failed to connect to PostgreSQL: " \o r.err,
                                "", FALSE, FALSE))
    /\ UNCHANGED <<envVars, waited, executors, emWriter, pgConfig, req, ctx, ex, worker,
                   scratch, todo, orphans, opsStarted, crashed>>

\* p.ensureConnection(ctx) and the return that follows its failure
PgEnsure(t) ==
    /\ ~crashed
    /\ pc[t] = "pg_ensure"
    /\ \E pingOld, newOk, pingNew \in BOOLEAN :
        /\ (ctx[t].expired => ~pingOld /\ ~pingNew)
        /\ LET r == ensureConnection(pgConfig, pgPool, pools, pingOld, newOk, pingNew)
           IN /\ Len(r.pools) <= MaxPools
              /\ pgPool' = r.pool
              /\ pools' = r.pools
              /\ IF r.err = ""
                 THEN pc' = [pc EXCEPT ![t] = "pg_query"] /\ UNCHANGED result
                 ELSE Return(t, ExecutionResult(PostgreSQL, ExitCodePostgresConnFailed,
                                "Failed to connect to PostgreSQL: " \o r.err,
                                "", FALSE, FALSE))
    /\ UNCHANGED <<envVars, waited, executors, emWriter, pgConfig, req, ctx, ex, worker,
                   scratch, todo, orphans, opsStarted, crashed>>

\* p.executeSQL(ctx, sqlCode) on p.pool and the rest of Execute
PgQuery(t) ==
    /\ ~crashed
    /\ pc[t] = "pg_query"
    /\ pgPool # 0
    /\ \E queryOk \in BOOLEAN, rowSet \in ServerRowSets, tag \in CommandTags :
        /\ (ctx[t].expired => ~queryOk)
        /\ (~pools[pgPool].open => ~queryOk)
        /\ IF queryOk
           THEN Return(t, [ExecutionResult(PostgreSQL, 0, "", "Query Type: ...", TRUE, TRUE)
                             EXCEPT !.sqlResult =
                                 executeSQL(prepareSQLCode(req[t].code), rowSet, tag)])
           ELSE IF ctx[t].expired
           THEN Return(t, ExecutionResult(PostgreSQL, ExitCodeTimeout,
                          "Query execution timed out", "", FALSE, FALSE))
           ELSE Return(t, ExecutionResult(PostgreSQL, ExitCodePostgresQueryError,
                          "SQL execution error: ...", "", FALSE, FALSE))
    /\ UNCHANGED <<envVars, waited, executors, emWriter, pgVars, req, ctx, ex, worker,
                   scratch, todo, orphans, opsStarted, crashed>>

(* ---------------------------------------------------------------------- *)
(* TypeScriptExecutor.Execute (goja build on windows, v8go build on unix)  *)
(* ---------------------------------------------------------------------- *)
fallbackPatterns == <<"Unexpected token", "SyntaxError", "ReferenceError", "TypeError">>

isGojaUnsupportedFeatureError(errorMsg) ==
    LET lowered == ToLower(errorMsg)
    IN \E i \in 1..Len(fallbackPatterns) :
           Contains(lowered, ToLower(fallbackPatterns[i]))

\* isNodeAvailable: the outcome of `node --version` (windows builds only)
isNodeAvailable == platform \in {"windows", "windows_otto"} /\ nodeInstalled

\* What a finished evaluation leaves behind: the error RunString returned,
\* the joined console.error lines, the joined outputs
ScriptOutcomes ==
    {o \in [execErr : {"", "Error: boom", "TypeError: x is not a function"},
            consoleErr : {"", "oops"},
            output : {"", "4"}] : o.output = "" <=> o.execErr # ""}

\* The `case <-done` branch of the select
SandboxResult(o) ==
    LET err == IF o.execErr # "" /\ o.consoleErr # ""
               THEN o.execErr \o "\n" \o o.consoleErr
               ELSE IF o.execErr # "" THEN o.execErr ELSE o.consoleErr
    IN ExecutionResult(TypeScript, IF o.execErr # "" THEN 1 ELSE 0, err, o.output,
                       TRUE, FALSE)

\* A timeout branch that sets the exit code and forgets the message
SandboxTimeoutSilent ==
    ExecutionResult(TypeScript, ExitCodeTimeout, "", "", TRUE, FALSE)

\* The `case <-ctx.Done()` branch of the select
SandboxTimeout ==
    ExecutionResult(TypeScript, ExitCodeTimeout, "Execution timed out", "", TRUE, FALSE)

\* Execute returning the result of executeWithGoja as it is
GojaFallbackNever(r) == r

\* Execute's handling of the result of executeWithGoja (windows build)
GojaFallback(r) ==
    IF platform = "windows" /\ r.exitCode # 0 /\ isGojaUnsupportedFeatureError(r.error)
    THEN ExecutionResult(TypeScript, ExitCodeNodeNotAvailable,
                         "Goja failed to execute the code.", "", TRUE, FALSE)
    ELSE r

\* The list of isOttoUnsupportedFeatureError, without its backquote pattern:
\* a string literal cannot hold that character here, and none of the messages
\* below contains it
ottoFallbackPatterns ==
    <<"arrow function", "=>", "template literal", "const", "let", "class",
      "import", "export", "async", "await", "spread", "destructuring",
      "Unexpected reserved word", "Unexpected token ILLEGAL">>

isOttoUnsupportedFeatureError(errorMsg) ==
    LET lowered == ToLower(errorMsg)
    IN \E i \in 1..Len(ottoFallbackPatterns) :
           Contains(lowered, ToLower(ottoFallbackPatterns[i]))

\* Execute's handling of the result of executeWithOtto (otto build for windows)
OttoFallback(r) ==
    IF r.exitCode # 0 /\ isOttoUnsupportedFeatureError(r.error)
    THEN ExecutionResult(TypeScript, ExitCodeNodeNotAvailable,
                         "Otto failed to execute the code.", "", TRUE, FALSE)
    ELSE r

\* What Execute makes of the result of the sandbox, by build
SandboxFallback(r) ==
    IF platform = "windows_otto" THEN OttoFallback(r) ELSE GojaFallback(r)

\* From js.mu.Lock() to the start of the subprocess or of the evaluation goroutine
TsEnter(t) ==
    /\ \E transpileOk, tempOk, consoleOk \in BOOLEAN :
        IF ~transpileOk
        THEN /\ Return(t, ExecutionResult(TypeScript, ExitCodeTranspile,
                           "TypeScript transpile error:\n...", "", TRUE, FALSE))
             /\ UNCHANGED <<worker, scratch>>
        ELSE IF isNodeAvailable
        THEN IF ~tempOk
             THEN /\ Return(t, ExecutionResult(TypeScript, ExitCodeTempFile,
                                "Failed to create temp file: ...", "", TRUE, FALSE))
                  /\ UNCHANGED <<worker, scratch>>
             ELSE /\ pc' = [pc EXCEPT ![t] = "ts_node"]
                  /\ scratch' = [scratch EXCEPT ![t] = "file"]
                  /\ UNCHANGED <<result, worker>>
        ELSE IF platform = "unix" /\ ~consoleOk
        THEN /\ Return(t, ExecutionResult(TypeScript, 1,
                           "Failed to setup console: ...", "", FALSE, FALSE))
             /\ UNCHANGED <<worker, scratch>>
        ELSE IF platform = "windows_otto" /\ ~consoleOk
        THEN /\ Return(t, OttoFallback(ExecutionResult(TypeScript, 1,
                           "Failed to setup console: ...", "", TRUE, FALSE)))
             /\ UNCHANGED <<worker, scratch>>
        ELSE /\ pc' = [pc EXCEPT ![t] = "ts_eval"]
             /\ worker' = [worker EXCEPT ![t] = "running"]
             /\ UNCHANGED <<result, scratch>>
    /\ UNCHANGED pgVars

\* cmd.CombinedOutput() of executeWithNode and what its defer does: the goja
\* build closes and removes the temp file, the otto build only closes it
TsNode(t) ==
    /\ ~crashed
    /\ pc[t] = "ts_node"
    /\ \E runOk \in BOOLEAN, out \in {"", "text"} :
        /\ (ctx[t].expired => ~runOk)
        /\ IF runOk
           THEN Return(t, ExecutionResult(TypeScript, 0, "", out, TRUE, FALSE))
           ELSE IF ctx[t].expired
           THEN Return(t, ExecutionResult(TypeScript, ExitCodeTimeout,
                          "Execution timed out", "", TRUE, FALSE))
           ELSE Return(t, ExecutionResult(TypeScript, 1, out, "", TRUE, FALSE))
    /\ scratch' = IF platform = "windows_otto" THEN scratch
                  ELSE [scratch EXCEPT ![t] = "none"]
    /\ UNCHANGED <<envVars, waited, executors, emWriter, pgVars, req, ctx, ex, worker,
                   todo, orphans, opsStarted, crashed>>

\* The goroutine running vm.RunString / ctx_v8.RunScript closes done
WorkerFinish(t) ==
    /\ ~crashed
    /\ worker[t] = "running"
    /\ worker' = [worker EXCEPT ![t] = IF ctx[t].expired THEN "late" ELSE "finished"]
    /\ UNCHANGED <<envVars, waited, executors, emWriter, pgVars, pc, req, ctx, ex,
                   scratch, todo, result, orphans, opsStarted, crashed>>

\* The select over done and ctx.Done(), and the return of Execute
TsEval(t) ==
    /\ ~crashed
    /\ pc[t] = "ts_eval"
    /\ \/ /\ worker[t] \in {"finished", "late"}
          /\ \E o \in ScriptOutcomes : Return(t, SandboxFallback(SandboxResult(o)))
          /\ UNCHANGED orphans
       \/ /\ ctx[t].expired
          /\ Return(t, SandboxFallback(SandboxTimeout))
          /\ orphans' = IF worker[t] = "running" THEN orphans + 1 ELSE orphans
    /\ worker' = [worker EXCEPT ![t] = "none"]
    /\ UNCHANGED <<envVars, waited, executors, emWriter, pgVars, req, ctx, ex, scratch,
                   todo, opsStarted, crashed>>

\* An evaluation goroutine that outlived its call comes to an end
OrphanFinish ==
    /\ ~crashed
    /\ orphans > 0
    /\ orphans' = orphans - 1
    /\ UNCHANGED <<envVars, waited, executors, emWriter, pgVars, pc, req, ctx, ex, worker,
                   scratch, todo, result, opsStarted, crashed>>

\* unix build: the deferred iso.Dispose() ran while RunScript was still using
\* the isolate; the use of the freed isolate may bring the process down
OrphanCrash ==
    /\ ~crashed
    /\ platform = "unix"
    /\ orphans > 0
    /\ crashed' = TRUE
    /\ UNCHANGED <<envVars, waited, executors, emWriter, pgVars, pc, req, ctx, ex, worker,
                   scratch, todo, result, orphans, opsStarted>>

(* ---------------------------------------------------------------------- *)
(* GoExecutor.Execute                                                      *)
(* ---------------------------------------------------------------------- *)
\* The loop body of indentCode for one line
IndentLine(line) == IF TrimSpace(line) # "" THEN "\t" \o line ELSE line

RECURSIVE IndentLines(_)
IndentLines(lines) ==
    IF Len(lines) = 0 THEN <<>> ELSE <<IndentLine(Head(lines))>> \o IndentLines(Tail(lines))

indentCode(code) == Join(IndentLines(Split(code, "\n")), "\n")

prepareGoCode(code) ==
    IF Contains(code, "package ") THEN code
    ELSE IF Contains(code, "func main(")
    THEN "package main\n\n" \o code
    ELSE "package main\n\nimport \"fmt\"\n\nfunc main() {\n" \o indentCode(code) \o "\n}"

\* strings.Replace(s, old, new, 1)
ReplaceFirst(s, old, new) ==
    LET i == Index(s, old)
    IN IF i = 0 \/ old = "" THEN s
       ELSE SubSeq(s, 1, i - 1) \o new \o SubSeq(s, i + Len(old), Len(s))

\* The loop body of cleanGoError for one line
CleanGoLine(line) ==
    IF ~Contains(line, "/tmp/codezone-go-") THEN line
    ELSE LET parts == Split(line, "/")
             found == {i \in 1..Len(parts) : HasPrefix(parts[i], "codezone-go-")}
         IN IF found = {} THEN line
            ELSE LET i == CHOOSE k \in found : \A j \in found : k <= j
                     newLine == IF i < Len(parts)
                                THEN "main.go" \o Join(SubSeq(parts, i + 1, Len(parts)), "/")
                                ELSE "main.go"
                 IN ReplaceFirst(line, Join(SubSeq(parts, 1, i + 1), "/"), newLine)

RECURSIVE CleanGoLines(_)
CleanGoLines(lines) ==
    IF Len(lines) = 0 THEN <<>> ELSE <<CleanGoLine(Head(lines))>> \o CleanGoLines(Tail(lines))

cleanGoError(errorText) == Join(CleanGoLines(Split(errorText, "\n")), "\n")

\* What the `go run` child wrote to stderr when it failed
GoStderrs == {"", "/tmp/codezone-go-1/main.go:1:1: bad"}
\* exitError.ExitCode() of a failed child (-1: killed by a signal); 0 stands
\* for an error that is not an *exec.ExitError
GoExitCodes == {0, 1, -1}

\* From g.mu.Lock() to cmd.Run()
GoEnter(t) ==
    /\ \E mkdirOk, writeOk \in BOOLEAN :
        IF ~goInstalled
        THEN /\ Return(t, ExecutionResult(Go, ExitCodeGoNotInstalled,
                           "Go is not installed. Please install Go ...", "", FALSE, FALSE))
             /\ UNCHANGED scratch
        ELSE IF ~mkdirOk
        THEN /\ Return(t, ExecutionResult(Go, 1, "Failed to create temp directory: ...",
                           "", FALSE, FALSE))
             /\ UNCHANGED scratch
        ELSE IF ~writeOk
        THEN /\ Return(t, ExecutionResult(Go, 1, "Failed to write temp file: ...",
                           "", FALSE, FALSE))
             /\ UNCHANGED scratch
        ELSE /\ pc' = [pc EXCEPT ![t] = "go_run"]
             /\ scratch' = [scratch EXCEPT ![t] = "dir"]
             /\ UNCHANGED result
    /\ UNCHANGED <<pgVars, worker>>

\* cmd.Run(), the result it is turned into, and the deferred os.RemoveAll
GoRun(t) ==
    /\ ~crashed
    /\ pc[t] = "go_run"
    /\ \E runOk \in BOOLEAN, out \in {"", "Hello"}, stderr \in GoStderrs,
          code \in GoExitCodes :
        /\ (ctx[t].expired => ~runOk)
        /\ (runOk \/ ctx[t].expired => stderr = "" /\ code = 0)
        /\ IF runOk
           THEN Return(t, ExecutionResult(Go, 0, "", out, TRUE, FALSE))
           ELSE IF ctx[t].expired
           THEN Return(t, ExecutionResult(Go, ExitCodeTimeout, "Execution timed out",
                          out, TRUE, FALSE))
           ELSE Return(t, ExecutionResult(Go, IF code # 0 THEN code ELSE 1,
                          IF stderr # "" THEN cleanGoError(stderr)
                          ELSE IF code # 0 THEN "exit status 1" ELSE "exec: ...",
                          out, TRUE, FALSE))
    /\ scratch' = [scratch EXCEPT ![t] = "none"]
    /\ UNCHANGED <<envVars, waited, executors, emWriter, pgVars, req, ctx, ex, worker,
                   todo, orphans, opsStarted, crashed>>

(* ---------------------------------------------------------------------- *)
(* Entering an executor                                                    *)
(* ---------------------------------------------------------------------- *)
\* mu.Lock() on a mutex that is held: the caller parks until it is released
LockBlocked(t) ==
    /\ ~waited[t]
    /\ waited' = [waited EXCEPT ![t] = TRUE]
    /\ UNCHANGED <<pc, result>>

\* executor.Execute(ctx, code, input) up to its first suspension point
ExecutorEnter(t) ==
    /\ ~crashed
    /\ pc[t] = "ex_lock"
    /\ IF MuFree(req[t].lang, ex[t])
       THEN /\ CASE req[t].lang = PostgreSQL -> PgEnter(t)
                 [] req[t].lang = Go -> GoEnter(t)
                 [] OTHER -> TsEnter(t)
            /\ UNCHANGED waited
       ELSE LockBlocked(t) /\ UNCHANGED <<pgVars, worker, scratch>>
    /\ UNCHANGED <<envVars, executors, emWriter, req, ctx, ex, todo, orphans,
                   opsStarted, crashed>>

(* ---------------------------------------------------------------------- *)
(* ExecutionManager.RefreshExecutor, Cleanup, GetSupportedLanguages        *)
(* ---------------------------------------------------------------------- *)
PlainReq(op, lang, conn) ==
    [op |-> op, lang |-> lang, timeout |-> 0, conn |-> conn, code |-> ""]

RefreshExecutorCall(t) ==
    /\ CanBegin(t, MaxOps)
    /\ Issue(t, {PlainReq("RefreshExecutor", lang, NilConfig) : lang \in Languages},
             "em_wlock")

CleanupCall(t) ==
    /\ CanBegin(t, MaxOps)
    /\ Issue(t, {PlainReq("Cleanup", "", NilConfig)}, "em_wlock")

\* A range loop that passes over the PostgreSQL executor
CleanupTargetsButPostgres == DOMAIN executors \ {PostgreSQL}

\* The executors `range em.executors` goes through
CleanupTargets == DOMAIN executors

\* em.mu.Lock() of RefreshExecutor and Cleanup
ManagerLock(t) ==
    /\ ~crashed
    /\ pc[t] = "em_wlock"
    /\ EmFree
    /\ emWriter' = t
    /\ pc' = [pc EXCEPT ![t] = IF req[t].op = "Cleanup" THEN "cl_visit" ELSE "rf_body"]
    /\ todo' = [todo EXCEPT ![t] = IF req[t].op = "Cleanup"
                                   THEN [left |-> CleanupTargets, visited |-> <<>>]
                                   ELSE NoTodo]
    /\ UNCHANGED <<envVars, waited, executors, pgVars, req, ctx, ex, worker, scratch,
                   result, orphans, opsStarted, crashed>>

\* A Cleanup of the PostgreSQL executor that forgets the configuration too
ExecutorCleanupUnbinds(lang) ==
    IF lang = PostgreSQL
    THEN /\ MuFree(PostgreSQL, executors[PostgreSQL])
         /\ pools' = ClosePool(pools, pgPool)
         /\ pgPool' = 0
         /\ pgConfig' = NilConfig
    ELSE UNCHANGED pgVars

\* Executor.Cleanup of the executor registered for lang: only the PostgreSQL
\* executor does anything (under p.mu): it closes and clears its pool
ExecutorCleanup(lang) ==
    IF lang = PostgreSQL
    THEN /\ MuFree(PostgreSQL, executors[PostgreSQL])
         /\ pools' = ClosePool(pools, pgPool)
         /\ pgPool' = 0
         /\ UNCHANGED pgConfig
    ELSE UNCHANGED pgVars

\* The body of RefreshExecutor, under em.mu
RefreshBody(t) ==
    /\ ~crashed
    /\ pc[t] = "rf_body"
    /\ IF req[t].lang \in DOMAIN executors
       THEN ExecutorCleanup(req[t].lang) ELSE UNCHANGED pgVars
    /\ IF req[t].lang \in {TypeScript, Go}
       THEN /\ executors' = [executors EXCEPT ![req[t].lang] = @ + 1]
            /\ Return(t, CommandOk)
       ELSE /\ UNCHANGED executors
            /\ Return(t, CommandError("cannot refresh unsupported language: "
                                       \o req[t].lang))
    /\ emWriter' = NoThread
    /\ UNCHANGED <<envVars, waited, req, ctx, ex, worker, scratch, todo, orphans,
                   opsStarted, crashed>>

\* One iteration of `for _, executor := range em.executors`, in map order;
\* after the last one em.mu is released
CleanupVisit(t) ==
    /\ ~crashed
    /\ pc[t] = "cl_visit"
    /\ \E lang \in todo[t].left :
        /\ ExecutorCleanup(lang)
        /\ todo' = [todo EXCEPT ![t] = [left |-> @.left \ {lang},
                                        visited |-> Append(@.visited, lang)]]
        /\ IF todo[t].left = {lang}
           THEN Return(t, CommandOk) /\ emWriter' = NoThread
           ELSE UNCHANGED <<pc, result, emWriter>>
    /\ UNCHANGED <<envVars, waited, executors, req, ctx, ex, worker, scratch, orphans,
                   opsStarted, crashed>>

GetSupportedLanguagesCall(t) ==
    /\ CanBegin(t, MaxOps)
    /\ Issue(t, {PlainReq("GetSupportedLanguages", "", NilConfig)}, "em_rlock")

\* The whole of GetSupportedLanguages, under the read lock
GetSupportedLanguages(t) ==
    /\ ~crashed
    /\ pc[t] = "em_rlock"
    /\ req[t].op = "GetSupportedLanguages"
    /\ EmFree
    /\ Return(t, CommandOk)
    /\ UNCHANGED <<envVars, waited, executors, emWriter, pgVars, req, ctx, ex, worker,
                   scratch, todo, orphans, opsStarted, crashed>>

(* ---------------------------------------------------------------------- *)
(* App commands on the PostgreSQL executor                                 *)
(* ---------------------------------------------------------------------- *)
\* The App commands on the PostgreSQL executor and their arguments
PostgresRequests ==
    {PlainReq(op, PostgreSQL, config) :
        op \in {"SetPostgreSQLConfig", "HadleConnection"}, config \in CommandConfigs}
    \cup {PlainReq(op, PostgreSQL, NilConfig) :
        op \in {"DisconnectPostgreSQL", "GetPostgreSQLConnectionStatus"}}

PostgresCall(t) ==
    /\ CanBegin(t, MaxOps)
    /\ Issue(t, PostgresRequests, "get_executor")

\* a.execMgr.GetExecutor(executor.PostgreSQL), under the read lock
GetExecutor(t) ==
    /\ ~crashed
    /\ pc[t] = "get_executor"
    /\ EmFree
    /\ ex' = [ex EXCEPT ![t] = executors[req[t].lang]]
    /\ pc' = [pc EXCEPT ![t] = "pg_command"]
    /\ UNCHANGED <<envVars, waited, executors, emWriter, pgVars, req, ctx, worker,
                   scratch, todo, result, orphans, opsStarted, crashed>>

\* What follows a CreatePgPool that returned nil: HadleConnection goes on to
\* TestConnection, a direct caller has its answer
CreatePgPoolSucceeds(t) ==
    IF req[t].op = "HadleConnection"
    THEN pc' = [pc EXCEPT ![t] = "hc_test"] /\ UNCHANGED result
    ELSE Return(t, CommandOk)

\* A CreatePgPool that puts the previous configuration back when it fails
CreatePgPoolRestores(t) ==
    IF req[t].conn = NilConfig
    THEN Return(t, CommandError("no configuration provided")) /\ UNCHANGED pgVars
    ELSE \E newOk, pingNew \in BOOLEAN :
        LET r == ensureConnection(req[t].conn, 0, ClosePool(pools, pgPool),
                                  FALSE, newOk, pingNew)
        IN /\ Len(r.pools) <= MaxPools
           /\ pgConfig' = IF r.err = "" THEN req[t].conn ELSE pgConfig
           /\ pgPool' = r.pool
           /\ pools' = r.pools
           /\ IF r.err = ""
              THEN CreatePgPoolSucceeds(t)
              ELSE Return(t, CommandError(r.err))

\* PostgreSQLExecutor.CreatePgPool: a nil configuration is refused before
\* p.mu is taken; the rest runs under p.mu
CreatePgPool(t) ==
    IF req[t].conn = NilConfig
    THEN Return(t, CommandError("no configuration provided")) /\ UNCHANGED pgVars
    ELSE \E newOk, pingNew \in BOOLEAN :
        LET r == ensureConnection(req[t].conn, 0, ClosePool(pools, pgPool),
                                  FALSE, newOk, pingNew)
        IN /\ Len(r.pools) <= MaxPools
           /\ pgConfig' = req[t].conn
           /\ pgPool' = r.pool
           /\ pools' = r.pools
           /\ IF r.err = ""
              THEN CreatePgPoolSucceeds(t)
              ELSE Return(t, CommandError(r.err))

\* PostgreSQLExecutor.IsConnected, under p.mu
IsConnected(t) ==
    /\ \E ping \in BOOLEAN :
        Return(t, [CommandOk EXCEPT !.output =
            IF isAvailableInternal(pgConfig) /\ pgPool # 0 /\ ping
            THEN "true" ELSE "false"])
    /\ UNCHANGED pgVars

\* The call the command makes on the executor once it has it
PostgresCommand(t) ==
    /\ ~crashed
    /\ pc[t] = "pg_command"
    /\ \/ MuFree(PostgreSQL, ex[t])
       \/ req[t].op = "CreatePgPool" /\ req[t].conn = NilConfig
    /\ CASE req[t].op = "SetPostgreSQLConfig" ->
                SetConfig(req[t].conn) /\ Return(t, CommandOk)
         [] req[t].op = "DisconnectPostgreSQL" ->
                ExecutorCleanup(PostgreSQL) /\ Return(t, CommandOk)
         [] req[t].op = "GetPostgreSQLConnectionStatus" -> IsConnected(t)
         [] OTHER -> CreatePgPool(t)
    /\ UNCHANGED <<envVars, waited, executors, emWriter, req, ctx, ex, worker, scratch,
                   todo, orphans, opsStarted, crashed>>

\* PostgreSQLExecutor.TestConnection of HadleConnection, under p.mu
TestConnection(t) ==
    /\ ~crashed
    /\ pc[t] = "hc_test"
    /\ MuFree(PostgreSQL, ex[t])
    /\ \E ping \in BOOLEAN :
        IF pgPool = 0
        THEN Return(t, CommandError("no connection pool available - call CreatePgPool first"))
        ELSE IF ping THEN Return(t, [CommandOk EXCEPT !.output = "true"])
        ELSE Return(t, CommandError("ping failed"))
    /\ UNCHANGED <<envVars, waited, executors, emWriter, pgVars, req, ctx, ex, worker,
                   scratch, todo, orphans, opsStarted, crashed>>

(* ---------------------------------------------------------------------- *)
(* The system                                                              *)
(* ---------------------------------------------------------------------- *)
Next ==
    \/ \E t \in Threads : ExecuteCall(t)
    \/ \E t \in Threads : Expire(t)
    \/ \E t \in Threads : ExecuteLookup(t)
    \/ \E t \in Threads : ExecuteSetConfig(t)
    \/ \E t \in Threads : ExecuteIsAvailable(t)
    \/ \E t \in Threads : ExecutorEnter(t)
    \/ \E t \in Threads : PgEnsure(t)
    \/ \E t \in Threads : PgQuery(t)
    \/ \E t \in Threads : TsNode(t)
    \/ \E t \in Threads : WorkerFinish(t)
    \/ \E t \in Threads : TsEval(t)
    \/ OrphanFinish
    \/ OrphanCrash
    \/ \E t \in Threads : GoRun(t)
    \/ \E t \in Threads : RefreshExecutorCall(t)
    \/ \E t \in Threads : CleanupCall(t)
    \/ \E t \in Threads : ManagerLock(t)
    \/ \E t \in Threads : RefreshBody(t)
    \/ \E t \in Threads : CleanupVisit(t)
    \/ \E t \in Threads : GetSupportedLanguagesCall(t)
    \/ \E t \in Threads : GetSupportedLanguages(t)
    \/ \E t \in Threads : PostgresCall(t)
    \/ \E t \in Threads : GetExecutor(t)
    \/ \E t \in Threads : PostgresCommand(t)
    \/ \E t \in Threads : TestConnection(t)
    \/ \E t \in Threads : Forget(t)

Spec == Init /\ [][Next]_vars

(* ---------------------------------------------------------------------- *)
(* A database session: up to MaxDbOps commands among Execute of SQL,       *)
(* Execute of a script, SetPostgreSQLConfig, RefreshExecutor(postgres) and *)
(* Cleanup, without request timeouts, on a host whose scripts run in the   *)
(* sandbox                                                                 *)
(* ---------------------------------------------------------------------- *)
InitDb ==
    /\ Init
    /\ platform = "windows"
    /\ ~nodeInstalled
    /\ goInstalled

DbExecuteRequests ==
    {r \in ExecuteRequests :
        /\ r.lang \in {PostgreSQL, TypeScript}
        /\ r.timeout = 0
        /\ r.conn \in {NilConfig, CfgA}
        /\ r.code \in {"SELECT 1 -- one", "f()"}}

DbExecuteCall(t) ==
    /\ CanBegin(t, MaxDbOps)
    /\ Issue(t, DbExecuteRequests, "em_rlock")

DbSetConfigCall(t) ==
    /\ CanBegin(t, MaxDbOps)
    /\ Issue(t, {PlainReq("SetPostgreSQLConfig", PostgreSQL, CfgB)}, "get_executor")

DbManagerCall(t) ==
    /\ CanBegin(t, MaxDbOps)
    /\ Issue(t, {PlainReq("Cleanup", "", NilConfig),
                 PlainReq("RefreshExecutor", PostgreSQL, NilConfig)}, "em_wlock")

NextDb ==
    \/ \E t \in Threads : DbExecuteCall(t)
    \/ \E t \in Threads : DbSetConfigCall(t)
    \/ \E t \in Threads : DbManagerCall(t)
    \/ \E t \in Threads : ExecuteLookup(t)
    \/ \E t \in Threads : ExecuteSetConfig(t)
    \/ \E t \in Threads : ExecuteIsAvailable(t)
    \/ \E t \in Threads : ExecutorEnter(t)
    \/ \E t \in Threads : PgEnsure(t)
    \/ \E t \in Threads : PgQuery(t)
    \/ \E t \in Threads : WorkerFinish(t)
    \/ \E t \in Threads : TsEval(t)
    \/ \E t \in Threads : ManagerLock(t)
    \/ \E t \in Threads : RefreshBody(t)
    \/ \E t \in Threads : CleanupVisit(t)
    \/ \E t \in Threads : GetExecutor(t)
    \/ \E t \in Threads : PostgresCommand(t)
    \/ \E t \in Threads : Forget(t)

SpecDb == InitDb /\ [][NextDb]_vars

(* ---------------------------------------------------------------------- *)
(* The otto build for windows (executor/typescript_win.go): scripts and Go *)
(* programs run through the manager, with and without node on the host     *)
(* ---------------------------------------------------------------------- *)
InitOtto == InitOn({"windows_otto"})

OttoExecuteRequests == {r \in ExecuteRequests : r.lang \in {TypeScript, Go}}

OttoExecuteCall(t) ==
    /\ CanBegin(t, MaxOps)
    /\ Issue(t, OttoExecuteRequests, "em_rlock")

NextOtto ==
    \/ \E t \in Threads : OttoExecuteCall(t)
    \/ \E t \in Threads : Expire(t)
    \/ \E t \in Threads : ExecuteLookup(t)
    \/ \E t \in Threads : ExecutorEnter(t)
    \/ \E t \in Threads : TsNode(t)
    \/ \E t \in Threads : WorkerFinish(t)
    \/ \E t \in Threads : TsEval(t)
    \/ OrphanFinish
    \/ \E t \in Threads : GoRun(t)
    \/ \E t \in Threads : Forget(t)

SpecOtto == InitOtto /\ [][NextOtto]_vars

(* ---------------------------------------------------------------------- *)
(* Statements of every kind sent to a configured server: Execute of SQL    *)
(* that carries its connection, with and without a request timeout         *)
(* ---------------------------------------------------------------------- *)
\* Two statements that return rows and one that does not
StatementCodes ==
    {"SELECT 1 -- one", "update t set a = 1", "with x as (select 1) select * from x"}

StatementRequests ==
    [op : {"Execute"}, lang : {PostgreSQL}, timeout : Timeouts, conn : {CfgA},
     code : StatementCodes]

StatementCall(t) ==
    /\ CanBegin(t, MaxOps)
    /\ Issue(t, StatementRequests, "em_rlock")

NextStatements ==
    \/ \E t \in Threads : StatementCall(t)
    \/ \E t \in Threads : Expire(t)
    \/ \E t \in Threads : ExecuteLookup(t)
    \/ \E t \in Threads : ExecuteSetConfig(t)
    \/ \E t \in Threads : ExecuteIsAvailable(t)
    \/ \E t \in Threads : ExecutorEnter(t)
    \/ \E t \in Threads : PgEnsure(t)
    \/ \E t \in Threads : PgQuery(t)
    \/ \E t \in Threads : Forget(t)

SpecStatements == InitDb /\ [][NextStatements]_vars

(* ---------------------------------------------------------------------- *)
(* The helpers called on their own, as the unit tests call them: the input *)
(* of a call is in req, the value it returns in result.output              *)
(* ---------------------------------------------------------------------- *)
\* The texts of 1 to n lines taken from lines
Texts(lines, n) ==
    {Join(ls, "\n") : ls \in UNION {[1..k -> lines] : k \in 1..n}}

HelperReq(op, code, d) ==
    [op |-> op, lang |-> "", timeout |-> d, conn |-> NilConfig, code |-> code]

HelperValue(text) == [NoResult EXCEPT !.kind = "value", !.output = text]

\* A helper runs from its call to its return
HelperRun(t, op, value) ==
    /\ ~crashed
    /\ pc[t] = "helper"
    /\ req[t].op = op
    /\ Return(t, HelperValue(value))
    /\ UNCHANGED <<envVars, waited, executors, emWriter, pgVars, req, ctx, ex, worker,
                   scratch, todo, orphans, opsStarted, crashed>>

\* Go sources: with and without a package clause, with and without func main
GoSourceLines ==
    {"package main", "func main() {}", "x := 1", "", "fmt.Println(\"a package \")"}

GoSources == Texts(GoSourceLines, MaxSourceLines)

PrepareGoCodeCall(t) ==
    /\ CanBegin(t, MaxHelperCalls)
    /\ Issue(t, {HelperReq("prepareGoCode", code, 0) : code \in GoSources}, "helper")

PrepareGoCodeRun(t) ==
    /\ pc[t] = "helper"
    /\ HelperRun(t, "prepareGoCode", prepareGoCode(req[t].code))

\* Directories os.MkdirTemp("", "codezone-go-*") may create: under /tmp, and
\* under another $TMPDIR
ScratchDirs == {"/tmp/codezone-go-1", "/var/folders/T/codezone-go-1"}

\* A diagnostic of the go tool, as it reads once the path is portable
Diagnostic == "main.go:1:1: bad"

\* Lines of the stderr of `go run`
GoStderrLines ==
    {dir \o "/" \o Diagnostic : dir \in ScratchDirs} \cup {"# command-line-arguments", ""}

CleanGoErrorCall(t) ==
    /\ CanBegin(t, MaxHelperCalls)
    /\ Issue(t, {HelperReq("cleanGoError", text, 0) :
                     text \in Texts(GoStderrLines, MaxSourceLines)}, "helper")

CleanGoErrorRun(t) ==
    /\ pc[t] = "helper"
    /\ HelperRun(t, "cleanGoError", cleanGoError(req[t].code))

\* Lines of SQL: statements, full-line and inline comments, blanks
SqlLines == {"SELECT 1", "  -- c", "a -- b", "", " x--y -- z ", "--"}

PrepareSQLCodeCall(t) ==
    /\ CanBegin(t, MaxHelperCalls)
    /\ Issue(t, {HelperReq("prepareSQLCode", text, 0) :
                     text \in Texts(SqlLines, MaxSourceLines)}, "helper")

PrepareSQLCodeRun(t) ==
    /\ pc[t] = "helper"
    /\ HelperRun(t, "prepareSQLCode", prepareSQLCode(req[t].code))

\* Durations in nanoseconds, at and around the changes of unit
Durations ==
    {0, 1, 500, 999, 1000, 1234, 1500, 999499, 999500, 999999, 1000000, 1814595,
     999499999, 999999999, 1000000000, 1500000000, 2147000000}

FormatDurationCall(t) ==
    /\ CanBegin(t, MaxHelperCalls)
    /\ Issue(t, {HelperReq("formatDuration", "", d) : d \in Durations}, "helper")

FormatDurationRun(t) ==
    /\ pc[t] = "helper"
    /\ HelperRun(t, "formatDuration", formatDuration(req[t].timeout))

NextHelpers ==
    \/ \E t \in Threads : PrepareGoCodeCall(t)
    \/ \E t \in Threads : PrepareGoCodeRun(t)
    \/ \E t \in Threads : CleanGoErrorCall(t)
    \/ \E t \in Threads : CleanGoErrorRun(t)
    \/ \E t \in Threads : PrepareSQLCodeCall(t)
    \/ \E t \in Threads : PrepareSQLCodeRun(t)
    \/ \E t \in Threads : FormatDurationCall(t)
    \/ \E t \in Threads : FormatDurationRun(t)
    \/ \E t \in Threads : Forget(t)

SpecHelpers == InitDb /\ [][NextHelpers]_vars

(* ---------------------------------------------------------------------- *)
(* A connection session: up to MaxDbOps commands, of which the first       *)
(* MaxOps may be HadleConnection, SetPostgreSQLConfig, DisconnectPostgreSQL *)
(* or GetPostgreSQLConnectionStatus and the others are Execute             *)
(* ---------------------------------------------------------------------- *)
\* executor.CreatePgPool called on the executor itself, as the executor's
\* tests call it, with and without a configuration
CreatePgPoolCall(t) ==
    /\ CanBegin(t, MaxOps)
    /\ Issue(t, {PlainReq("CreatePgPool", PostgreSQL, config) :
                    config \in {NilConfig, CfgB}}, "get_executor")

NextConnection ==
    \/ \E t \in Threads : PostgresCall(t)
    \/ \E t \in Threads : CreatePgPoolCall(t)
    \/ \E t \in Threads : DbExecuteCall(t)
    \/ \E t \in Threads : ExecuteLookup(t)
    \/ \E t \in Threads : ExecuteSetConfig(t)
    \/ \E t \in Threads : ExecuteIsAvailable(t)
    \/ \E t \in Threads : ExecutorEnter(t)
    \/ \E t \in Threads : PgEnsure(t)
    \/ \E t \in Threads : PgQuery(t)
    \/ \E t \in Threads : WorkerFinish(t)
    \/ \E t \in Threads : TsEval(t)
    \/ \E t \in Threads : GetExecutor(t)
    \/ \E t \in Threads : PostgresCommand(t)
    \/ \E t \in Threads : TestConnection(t)
    \/ \E t \in Threads : Forget(t)

SpecConnection == InitDb /\ [][NextConnection]_vars

(* ---------------------------------------------------------------------- *)
(* The earlier PostgreSQL executor (executor/postgres.go): its              *)
(* TestConnection works on p.config and p.pool without taking p.mu, while  *)
(* Execute of SQL runs under p.mu. The reads and writes of the two race;   *)
(* the steps below are the points at which the outcome of the race shows   *)
(* ---------------------------------------------------------------------- *)
LegacyExecuteCall(t) ==
    /\ CanBegin(t, MaxOps)
    /\ Issue(t, {r \in ExecuteRequests :
                    /\ r.lang = PostgreSQL
                    /\ r.timeout = 0
                    /\ r.conn = CfgA
                    /\ r.code = "SELECT 1 -- one"}, "em_rlock")

LegacyTestConnectionCall(t) ==
    /\ CanBegin(t, MaxOps)
    /\ Issue(t, {PlainReq("TestConnection", PostgreSQL, CfgB)}, "lt_config")

\* The locals of a call of TestConnection, kept with its context: the
\* configuration to restore, the pool ensureConnection built and has yet to
\* store, and the error to return
LegacyLocals(oldConfig, pool, err) ==
    [deadline |-> NoDeadline, expired |-> FALSE, oldConfig |-> oldConfig,
     pool |-> pool, err |-> err]

\* oldConfig := p.config; p.config = config
LegacySetConfig(t) ==
    /\ ~crashed
    /\ pc[t] = "lt_config"
    /\ ctx' = [ctx EXCEPT ![t] = LegacyLocals(pgConfig, 0, "")]
    /\ pgConfig' = req[t].conn
    /\ pc' = [pc EXCEPT ![t] = "lt_ensure"]
    /\ UNCHANGED <<envVars, waited, executors, emWriter, pgPool, pools, req, ex, worker,
                   scratch, todo, result, orphans, opsStarted, crashed>>

\* ensureConnection up to its last statement: the held pool is pinged and, if
\* it fails, closed; the new pool is built and pinged
LegacyEnsure(t) ==
    /\ ~crashed
    /\ pc[t] = "lt_ensure"
    /\ \E pingOld, newOk, pingNew \in BOOLEAN :
        LET r == ensureConnection(pgConfig, pgPool, pools, pingOld, newOk, pingNew)
            built == r.err = "" /\ r.pool # pgPool
        IN /\ Len(r.pools) <= MaxPools
           /\ pools' = r.pools
           /\ pgPool' = IF built THEN 0 ELSE r.pool
           /\ ctx' = [ctx EXCEPT ![t] =
                         LegacyLocals(@.oldConfig, IF built THEN r.pool ELSE 0, r.err)]
           /\ pc' = [pc EXCEPT ![t] = IF built THEN "lt_store" ELSE "lt_close"]
    /\ UNCHANGED <<envVars, waited, executors, emWriter, pgConfig, req, ex, worker,
                   scratch, todo, result, orphans, opsStarted, crashed>>

\* p.pool = pool, the last statement of ensureConnection
LegacyStore(t) ==
    /\ ~crashed
    /\ pc[t] = "lt_store"
    /\ pgPool' = ctx[t].pool
    /\ pc' = [pc EXCEPT ![t] = "lt_close"]
    /\ UNCHANGED <<envVars, waited, executors, emWriter, pgConfig, pools, req, ctx, ex,
                   worker, scratch, todo, result, orphans, opsStarted, crashed>>

\* The rest of TestConnection: the pool the executor holds is closed when
\* p.config is still the tested configuration, and the deferred function
\* puts the old configuration back
LegacyClose(t) ==
    /\ ~crashed
    /\ pc[t] = "lt_close"
    /\ IF pgPool # 0 /\ pgConfig = req[t].conn
       THEN pools' = ClosePool(pools, pgPool) /\ pgPool' = 0
       ELSE UNCHANGED <<pgPool, pools>>
    /\ pgConfig' = ctx[t].oldConfig
    /\ Return(t, IF ctx[t].err = "" THEN CommandOk ELSE CommandError(ctx[t].err))
    /\ UNCHANGED <<envVars, waited, executors, emWriter, req, ctx, ex, worker, scratch,
                   todo, orphans, opsStarted, crashed>>

\* p.pool.Query on the nil pool TestConnection left behind: the process panics
LegacyNilPool(t) ==
    /\ ~crashed
    /\ pc[t] = "pg_query"
    /\ pgPool = 0
    /\ crashed' = TRUE
    /\ UNCHANGED <<envVars, waited, executors, emWriter, pgVars, pc, req, ctx, ex, worker,
                   scratch, todo, result, orphans, opsStarted>>

NextLegacy ==
    \/ \E t \in Threads : LegacyExecuteCall(t)
    \/ \E t \in Threads : LegacyTestConnectionCall(t)
    \/ \E t \in Threads : ExecuteLookup(t)
    \/ \E t \in Threads : ExecuteSetConfig(t)
    \/ \E t \in Threads : ExecuteIsAvailable(t)
    \/ \E t \in Threads : ExecutorEnter(t)
    \/ \E t \in Threads : PgEnsure(t)
    \/ \E t \in Threads : PgQuery(t)
    \/ \E t \in Threads : LegacySetConfig(t)
    \/ \E t \in Threads : LegacyEnsure(t)
    \/ \E t \in Threads : LegacyStore(t)
    \/ \E t \in Threads : LegacyClose(t)
    \/ \E t \in Threads : LegacyNilPool(t)
    \/ \E t \in Threads : Forget(t)

SpecLegacy == InitDb /\ [][NextLegacy]_vars

(* ---------------------------------------------------------------------- *)
(* Properties                                                              *)
(* ---------------------------------------------------------------------- *)
Min(a, b) == IF a <= b THEN a ELSE b

\* Thread t runs an Execute that is inside its executor, holding its mutex
Inside(t) == req[t].op = "Execute" /\ pc[t] \in InsidePC

\* Thread t's Execute has returned
Returned(t) == req[t].op = "Execute" /\ pc[t] = "done"

\* Thread t's Execute stands at mu.Lock() of an executor another call is inside
Queued(t) ==
    /\ req[t].op = "Execute"
    /\ pc[t] = "ex_lock"
    /\ \E u \in Threads \ {t} :
          Inside(u) /\ req[u].lang = req[t].lang /\ ex[u] = ex[t]

\* C1: a request issued for an executor that is executing another request is
\* rejected at once with a "busy" error; it never waits on the executor to
\* run after the request in flight.
C1_BusyRejectedNeverQueued ==
    \A t \in Threads :
        /\ ~Queued(t)
        /\ ~waited[t]

C3_DeadlineIsMinOfTimeoutAndDefault ==
    \A t \in Threads :
        Inside(t) =>
            ctx[t].deadline = IF req[t].timeout > 0
                              THEN Min(req[t].timeout, OptionsTimeout)
                              ELSE OptionsTimeout

\* C4: a request whose deadline fired before its executor had finished
\* returns an ExecutionResult with exit code 124, whichever executor handled
\* it and whichever step it had reached.
C4_ExpiredReturns124 ==
    \A t \in Threads :
        (Returned(t) /\ ctx[t].expired) =>
            (result[t].kind = "result" /\ result[t].exitCode = ExitCodeTimeout)

\* C5: once a call has returned because its deadline expired, nothing it
\* started is still running: no evaluation worker outlives its call.
C5_NothingOutlivesTimedOutCall == orphans = 0

\* C6: a Postgres request that carries postgresqlConn runs its query on a
\* pool built from exactly that configuration, whatever other Postgres
\* requests or SetPostgreSQLConfig calls run concurrently.
C6_QueryRunsOnRequestConfig ==
    \A t \in Threads :
        (Inside(t) /\ pc[t] = "pg_query" /\ req[t].conn # NilConfig) =>
            /\ pgPool # 0
            /\ pools[pgPool].conn = buildConnectionString(req[t].conn)

\* The pool the PostgreSQL executor holds is open and was built from the
\* configuration it holds, and every pool it held before is closed
PoolIsOfBoundConfig ==
    /\ pgPool # 0 =>
          /\ pools[pgPool].open
          /\ pools[pgPool].conn = buildConnectionString(pgConfig)
    /\ \A i \in 1..Len(pools) : pools[i].open => i = pgPool

\* Thread t's SetPostgreSQLConfig returns in this step
SetPostgreSQLConfigReturns(t) ==
    /\ req[t].op = "SetPostgreSQLConfig"
    /\ pc[t] = "pg_command"
    /\ pc'[t] = "done"

\* C7: once SetPostgreSQLConfig(new) has returned, the next Execute runs on a
\* pool built from the new configuration and never on the pool the previous
\* Execute used: when the command returns the executor holds the new
\* configuration and no pool, what was open is closed, and at all times the
\* pool the executor holds is open and built from the configuration it holds.
C7_NextExecuteRunsOnNewPool ==
    /\ []PoolIsOfBoundConfig
    /\ [][\A t \in Threads :
            SetPostgreSQLConfigReturns(t) =>
                /\ pgConfig' = req[t].conn
                /\ pgPool' = 0
                /\ \A i \in 1..Len(pools') : ~pools'[i].open]_vars

\* An Execute has returned rows from the first pool, SetPostgreSQLConfig(CfgB)
\* has returned, and a later Execute queries the second pool, built from CfgB,
\* the first pool being closed
C7_Witness ==
    \E t, u, v \in Threads :
        /\ Returned(t) /\ req[t].conn = CfgA /\ result[t].exitCode = 0 /\ result[t].sql
        /\ req[u].op = "SetPostgreSQLConfig" /\ pc[u] = "done"
        /\ Inside(v) /\ pc[v] = "pg_query" /\ req[v].conn = NilConfig
        /\ Len(pools) = 2 /\ pgPool = 2
        /\ ~pools[1].open
        /\ pools[1].conn = buildConnectionString(CfgA)
        /\ pools[2].conn = buildConnectionString(CfgB)

\* Thread w holds ExecutionManager.mu for writing and stands at p.mu.Lock()
\* of the PostgreSQL executor, which thread u's Execute is inside
WriterWaitsFor(w, u) ==
    /\ emWriter = w
    /\ Inside(u) /\ req[u].lang = PostgreSQL /\ ex[u] = executors[PostgreSQL]
    /\ \/ pc[w] = "rf_body" /\ req[w].lang = PostgreSQL
       \/ pc[w] = "cl_visit" /\ todo[w].left = {PostgreSQL}

\* C8: a request for one language never waits for an in-flight request of a
\* different language to finish, whatever manager operations are pending.
C8_NoWaitAcrossLanguages ==
    \A t, w, u \in Threads :
        ~ /\ req[t].op = "Execute" /\ pc[t] = "em_rlock"
          /\ WriterWaitsFor(w, u)
          /\ req[u].lang # req[t].lang

\* C9: every failure reaches the caller of Execute as an ExecutionResult;
\* Execute returns a command-level error only for a language no executor is
\* registered for.
C9_ErrorOnlyForUnknownLanguage ==
    \A t \in Threads :
        (Returned(t) /\ result[t].kind = "error") => req[t].lang \notin Registered

ReservedExitCodes ==
    {0, 1, ExitCodeTranspile, ExitCodeTimeout, ExitCodeGoNotInstalled,
     ExitCodePostgresNotAvailable, ExitCodePostgresConnFailed,
     ExitCodePostgresQueryError, ExitCodeNodeNotAvailable}

\* C11: every result's exitCode is one of 0, 1, 2, 124, 150, 151, 152, 153,
\* 160, on every path of every executor.
C11_ExitCodeIsReserved ==
    \A t \in Threads :
        (Returned(t) /\ result[t].kind = "result") =>
            result[t].exitCode \in ReservedExitCodes

\* C12: every result returned by any executor, on success and on every
\* failure path, has duration >= 0 and a durationString equal to the
\* duration formatter applied to that result's duration.
C12_DurationStringIsFormatted ==
    \A t \in Threads :
        (Returned(t) /\ result[t].kind = "result") =>
            /\ result[t].duration >= 0
            /\ result[t].durationString = formatDuration(result[t].duration)

\* C13: RefreshExecutor(language) succeeds for every registered language,
\* postgres included.
C13_RefreshSucceedsForRegistered ==
    \A t \in Threads :
        (req[t].op = "RefreshExecutor" /\ pc[t] = "done" /\ req[t].lang \in Registered)
            => result[t].kind = "ok"

\* C14: a request tagged javascript is routed to the TypeScript executor and
\* is answered by it, as the same request tagged typescript is.
C14_JavaScriptRunsOnTypeScript ==
    \A t \in Threads :
        (Returned(t) /\ req[t].lang = JavaScript) =>
            (result[t].kind = "result" /\ result[t].language = TypeScript)

\* C15: a request with empty code returns output "" and no sqlResult
\* without invoking any backend: no sandbox, subprocess, scratch file or
\* database pool is touched on its behalf.
C15_EmptyCodeTouchesNoBackend ==
    \A t \in Threads :
        (req[t].op = "Execute" /\ req[t].code = "") =>
            /\ pc[t] \notin InsidePC
            /\ worker[t] = "none"
            /\ scratch[t] = "none"
            /\ (pc[t] = "done" /\ result[t].kind = "result" =>
                    result[t].output = "" /\ ~result[t].sql)

\* The code has a line, and every line of it is blank or a -- comment
OnlyComments(code) ==
    LET lines == Split(code, "\n")
    IN /\ \E i \in 1..Len(lines) : HasPrefix(TrimSpace(lines[i]), "--")
       /\ \A i \in 1..Len(lines) :
              TrimSpace(lines[i]) = "" \/ HasPrefix(TrimSpace(lines[i]), "--")

\* Thread t's Execute carries SQL made of -- comments only
CommentOnlyRequest(t) ==
    req[t].op = "Execute" /\ req[t].lang = PostgreSQL /\ OnlyComments(req[t].code)

\* C16 (as stated): SQL input consisting only of -- comments is rejected
\* with exit code 153 and "No SQL query provided" without contacting the
\* server.
C16_CommentOnlyIs153 ==
    \A t \in Threads :
        CommentOnlyRequest(t) =>
            /\ pc[t] \notin {"pg_ensure", "pg_query"}
            /\ (pc[t] = "done" =>
                    /\ result[t].kind = "result"
                    /\ result[t].exitCode = ExitCodePostgresQueryError
                    /\ result[t].error = "No SQL query provided")

\* C16 (amended): SQL input consisting only of -- comments never reaches
\* the server: its call never creates, pings or queries a pool; and when
\* the executor holds a usable configuration as the call enters it, the
\* call is rejected there with exit code 153 and "No SQL query provided",
\* the pool and the configuration left as they were.
C16_CommentOnlyNeverReachesServer ==
    /\ [](\A t \in Threads :
            CommentOnlyRequest(t) => pc[t] \notin {"pg_ensure", "pg_query"})
    /\ [][\A t \in Threads :
            (/\ CommentOnlyRequest(t)
             /\ pc[t] = "ex_lock"
             /\ pc'[t] # "ex_lock"
             /\ isAvailableInternal(pgConfig)) =>
                /\ pc'[t] = "done"
                /\ result'[t].kind = "result"
                /\ result'[t].exitCode = ExitCodePostgresQueryError
                /\ result'[t].error = "No SQL query provided"
                /\ pgVars' = pgVars]_vars

C16_Witness ==
    \E t \in Threads :
        /\ CommentOnlyRequest(t)
        /\ pc[t] = "done"
        /\ result[t].kind = "result"
        /\ result[t].exitCode = ExitCodePostgresQueryError
        /\ result[t].error = "No SQL query provided"

\* Thread t's Execute returned a result of the TypeScript executor
TsReturned(t) ==
    Returned(t) /\ result[t].kind = "result" /\ result[t].language = TypeScript

\* C17 (as stated): the TypeScript executor returns 160 exactly when no
\* external runtime is available and the sandbox failed with a message
\* matching the fallback pattern list: such a failure is never reported as
\* code 1, and 160 is never returned while an external runtime is available.
C17_Exit160IffFallback ==
    \A t \in Threads :
        TsReturned(t) =>
            /\ (result[t].exitCode = ExitCodeNodeNotAvailable => ~isNodeAvailable)
            /\ (~isNodeAvailable /\ result[t].exitCode = 1 =>
                    ~isGojaUnsupportedFeatureError(result[t].error))

\* C17 (amended): in the windows (goja) build, the TypeScript executor returns 160
\* exactly when no external runtime is available and the sandbox failed
\* with a message matching the fallback pattern list: there such a failure
\* is never reported as code 1, and 160 is never returned while an external
\* runtime is available. The unix build never returns 160.
C17_Exit160IffFallbackOnWindows ==
    \A t \in Threads :
        TsReturned(t) =>
            /\ (result[t].exitCode = ExitCodeNodeNotAvailable =>
                    /\ platform = "windows"
                    /\ ~isNodeAvailable
                    /\ result[t].error = "Goja failed to execute the code.")
            /\ (platform = "windows" /\ ~isNodeAvailable /\ result[t].exitCode = 1 =>
                    ~isGojaUnsupportedFeatureError(result[t].error))

C17_Witness ==
    \E t \in Threads :
        /\ TsReturned(t)
        /\ result[t].exitCode = ExitCodeNodeNotAvailable
        /\ ~isNodeAvailable

\* C18: every scratch directory and temporary file an executor creates
\* during a call has been removed when the call returns, on every exit path.
C18_ScratchRemovedOnReturn ==
    \A t \in Threads : pc[t] \in {"done", "idle"} => scratch[t] = "none"

\* The order in which NewExecutionManager registers the executors
RegistrationOrder == <<TypeScript, Go, PostgreSQL>>

\* Thread t's Cleanup has returned
CleanedUp(t) == req[t].op = "Cleanup" /\ pc[t] = "done"

ReturnsRows(code) ==
    LET words == Split(ToUpper(TrimSpace(prepareSQLCode(code))), " ")
    IN Len(words) > 0 /\ words[1] \in {"SELECT", "WITH"}

\* Thread t's Execute of SQL returned a successful result
PgSucceeded(t) ==
    /\ Returned(t)
    /\ result[t].kind = "result"
    /\ result[t].language = PostgreSQL
    /\ result[t].exitCode = 0

\* C20: every successful Postgres result carries a sqlResult in which, for
\* SELECT/WITH statements, each row has exactly len(columns) cells and
\* rowsAffected = len(rows), and, for every other statement,
\* columns = ["Rows Affected"], rows = [[n]] and rowsAffected = n.
C20_SqlResultShape ==
    \A t \in Threads :
        PgSucceeded(t) =>
            /\ result[t].sql
            /\ LET q == result[t].sqlResult
               IN IF ReturnsRows(req[t].code)
                  THEN /\ \A i \in 1..Len(q.rows) : Len(q.rows[i]) = Len(q.columns)
                       /\ q.rowsAffected = Len(q.rows)
                  ELSE /\ q.columns = <<"Rows Affected">>
                       /\ q.rows = << <<q.rowsAffected>> >>

C20_Witness ==
    /\ \E t \in Threads :
          /\ PgSucceeded(t)
          /\ ReturnsRows(req[t].code)
          /\ Len(result[t].sqlResult.rows) = 2
    /\ \E t \in Threads :
          /\ PgSucceeded(t)
          /\ ~ReturnsRows(req[t].code)
          /\ result[t].sqlResult.rowsAffected = 3

\* The source has a package clause: a line that starts with the keyword
\* package followed by a name
HasPackageClause(code) ==
    LET lines == Split(code, "\n")
    IN \E i \in 1..Len(lines) :
           LET words == Split(TrimSpace(lines[i]), " ")
           IN Len(words) >= 2 /\ words[1] = "package" /\ words[2] # ""

\* Thread t's call of the helper op has returned
HelperDone(t, op) == req[t].op = op /\ pc[t] = "done" /\ result[t].kind = "value"

\* The file generated around a snippet: every line of it that is not blank
\* indented by one tab
WrappedInMain(code) ==
    LET lines == Split(code, "\n")
        body == [i \in 1..Len(lines) |->
                    IF TrimSpace(lines[i]) = "" THEN lines[i] ELSE "\t" \o lines[i]]
    IN "package main\n\nimport \"fmt\"\n\nfunc main() {\n" \o Join(body, "\n") \o "\n}"

\* C21: Go program synthesis picks exactly one of three forms: source
\* containing a package declaration is used verbatim (so synthesis is
\* idempotent on it); otherwise source containing func main( receives only
\* the prefix "package main\n\n"; otherwise the snippet becomes the
\* tab-indented body of func main() in a generated package main file that
\* imports fmt.
C21_ThreeFormsOfGoSource ==
    \A t \in Threads :
        HelperDone(t, "prepareGoCode") =>
            LET code == req[t].code
                out == result[t].output
            IN IF HasPackageClause(code)
               THEN out = code /\ prepareGoCode(out) = out
               ELSE IF Contains(code, "func main(")
               THEN out = "package main\n\n" \o code
               ELSE out = WrappedInMain(code)

\* C22: in Go diagnostics every absolute scratch-workspace path is replaced
\* by main.go: a stderr line "<scratch dir>/main.go:L:C: msg" is reported as
\* "main.go:L:C: msg", and no scratch directory name remains in error.
C22_ScratchPathsBecomeMainGo ==
    \A t \in Threads :
        HelperDone(t, "cleanGoError") =>
            /\ \A dir \in ScratchDirs :
                  /\ ~Contains(result[t].output, dir)
                  /\ (req[t].code = dir \o "/" \o Diagnostic =>
                          result[t].output = Diagnostic)

\* C23: SQL cleaning is idempotent: applying the cleaner to its own output
\* returns that output unchanged, for every input.
C23_CleaningIsIdempotent ==
    \A t \in Threads :
        HelperDone(t, "prepareSQLCode") =>
            prepareSQLCode(result[t].output) = result[t].output

C23_Witness ==
    \E t \in Threads :
        /\ HelperDone(t, "prepareSQLCode")
        /\ req[t].code = "  -- c\na -- b\n x--y -- z "
        /\ result[t].output = "a\nx"

\* The text is a number followed by the unit and nothing else
EndsWithUnit(text, unit) ==
    /\ Len(text) > Len(unit)
    /\ SubSeq(text, Len(text) - Len(unit) + 1, Len(text)) = unit
    /\ SubSeq(text, Len(text) - Len(unit), Len(text) - Len(unit))
           \in {"0", "1", "2", "3", "4", "5", "6", "7", "8", "9"}

\* The unit of a duration of d nanoseconds, by range, the microsecond written
\* as micro
UnitOf(d, micro) ==
    IF d < 1000 THEN "ns"
    ELSE IF d < 1000000 THEN micro
    ELSE IF d < 1000000000 THEN "ms"
    ELSE "s"

\* C24 (as stated): the duration formatter chooses its unit by range alone:
\* ns for d < 1 us, us written with the micro sign (U+00B5) for
\* 1 us <= d < 1 ms, ms for 1 ms <= d < 1 s, s for d >= 1 s, and the
\* rendered string ends with exactly that unit suffix.
C24_UnitByRangeMicroSign ==
    \A t \in Threads :
        HelperDone(t, "formatDuration") =>
            EndsWithUnit(result[t].output, UnitOf(req[t].timeout, "µs"))

\* C24 (amended): the same, the microsecond suffix being the one the
\* formatter writes, with the Greek letter mu (U+03BC).
C24_UnitByRangeGreekMu ==
    \A t \in Threads :
        HelperDone(t, "formatDuration") =>
            EndsWithUnit(result[t].output, UnitOf(req[t].timeout, "μs"))

C24_Witness ==
    \E t \in Threads :
        /\ HelperDone(t, "formatDuration")
        /\ req[t].timeout = 999500
        /\ result[t].output = "1e+03μs"

\* C25: on the sandbox path the outcome is decided by whichever happens
\* first: a script whose evaluation completes before the deadline expires
\* is reported with its own result and never as a timeout.
C25_FinishedInTimeIsNeverTimeout ==
    [][\A t \in Threads :
          (/\ pc[t] = "ts_eval"
           /\ worker[t] = "finished"
           /\ pc'[t] = "done") => result'[t].exitCode # ExitCodeTimeout]_vars

\* C26: the Postgres executor holds at most one open pool at any time, and
\* every pool it has ever constructed is either the pool it currently holds
\* (or is about to store) or has been closed, including a pool whose first
\* ping failed.
C26_EveryPoolHeldOrClosed ==
    \A i \in 1..Len(pools) :
        pools[i].open =>
            \/ i = pgPool
            \/ \E t \in Threads : pc[t] = "lt_store" /\ ctx[t].pool = i

\* C27: SetConfig closes the open pool only when the configuration changes:
\* a SetConfig (of Execute or of SetPostgreSQLConfig) with a configuration
\* equal to the bound one leaves the open pool in place.
C27_SameConfigKeepsPool ==
    [][\A t \in Threads :
        (/\ \/ pc[t] = "set_config" /\ pc'[t] = "is_available"
            \/ pc[t] = "pg_command" /\ req[t].op = "SetPostgreSQLConfig" /\ pc'[t] = "done"
         /\ req[t].conn = pgConfig
         /\ pgPool # 0)
        => (pgPool' = pgPool /\ pools' = pools)]_vars

\* The steps a call of thread t can take once it is past the Lock of
\* Executor.Execute, its Execute's timer and sandbox goroutine included
Step(t) ==
    \/ Expire(t) \/ ExecuteLookup(t) \/ ExecuteSetConfig(t) \/ ExecuteIsAvailable(t)
    \/ PgEnsure(t) \/ PgQuery(t) \/ TsNode(t) \/ WorkerFinish(t)
    \/ TsEval(t) \/ GoRun(t) \/ ManagerLock(t) \/ RefreshBody(t) \/ CleanupVisit(t)
    \/ GetSupportedLanguages(t) \/ GetExecutor(t) \/ PostgresCommand(t)
    \/ TestConnection(t)

\* The call of thread t can move on: it is not held back by a lock
Runnable(t) ==
    IF pc[t] = "ex_lock"
    THEN MuFree(req[t].lang, ex[t])
    ELSE ENABLED (/\ Step(t)
                  /\ \/ pc'[t] # pc[t]
                     \/ worker'[t] # worker[t]
                     \/ ctx'[t] # ctx[t]
                     \/ todo'[t] # todo[t])

\* Thread t stands at a Lock or RLock of ExecutionManager.mu that another
\* thread holds, and holds no executor mutex itself
AtManagerLock(t) ==
    /\ pc[t] \in {"em_rlock", "em_wlock", "get_executor"}
    /\ emWriter \notin {NoThread, t}

\* Thread t stands at the Lock of the mutex of an executor while thread u is
\* inside Execute of that executor
AtExecutorMutex(t, u) ==
    /\ Inside(u)
    /\ ~Inside(t)
    /\ \/ /\ pc[t] \in {"set_config", "is_available", "pg_command", "hc_test"}
          /\ req[u].lang = PostgreSQL /\ ex[u] = ex[t]
       \/ /\ pc[t] = "ex_lock"
          /\ req[u].lang = req[t].lang /\ ex[u] = ex[t]
       \/ /\ pc[t] \in {"rf_body", "cl_visit"}
          /\ emWriter = t
          /\ req[u].lang = PostgreSQL /\ ex[u] = executors[PostgreSQL]

\* C28: no interleaving of the manager's and the PostgreSQL executor's
\* operations deadlocks. A thread inside an executor (holding its mutex) can
\* always move on, so it never waits for the manager lock; the holder of the
\* manager lock can move on or waits for an executor mutex; every other
\* call in progress can move on or waits for one of these two locks.
C28_NoDeadlock ==
    ~crashed =>
        \A t \in Threads :
            pc[t] \notin {"idle", "done"} =>
                \/ Runnable(t)
                \/ emWriter # t /\ ~Inside(t) /\ AtManagerLock(t)
                \/ \E u \in Threads : AtExecutorMutex(t, u) /\ Runnable(u)

\* C28 happens: the holder of the manager lock waits for the mutex of the
\* PostgreSQL executor, whose holder is in the middle of a query
C28_Witness ==
    /\ ~crashed
    /\ \E w, u \in Threads :
        /\ emWriter = w /\ ~Runnable(w)
        /\ AtExecutorMutex(w, u) /\ pc[u] = "pg_query" /\ Runnable(u)

\* A step in which PostgreSQLExecutor.Cleanup runs for thread t: in
\* DisconnectPostgreSQL, in RefreshExecutor(postgres) or in the manager's Cleanup
PgCleanupRuns(t) ==
    \/ pc[t] = "pg_command" /\ req[t].op = "DisconnectPostgreSQL" /\ pc'[t] = "done"
    \/ pc[t] = "rf_body" /\ req[t].lang = PostgreSQL /\ pc'[t] = "done"
    \/ pc[t] = "cl_visit" /\ PostgreSQL \in todo[t].left /\ PostgreSQL \notin todo'[t].left

\* C29: PostgreSQLExecutor.Cleanup changes only the pool: the pool is closed
\* and cleared and the bound configuration is kept, so the executor is as
\* available as before; an Execute that then finds no pool opens a new one
\* from the configuration that is bound.
C29_CleanupKeepsConfig ==
    /\ [][\A t \in Threads :
            PgCleanupRuns(t) =>
                /\ pgConfig' = pgConfig
                /\ pgPool' = 0
                /\ pools' = ClosePool(pools, pgPool)
                /\ \A i \in 1..Len(pools') : ~pools'[i].open]_vars
    /\ [][\A t \in Threads :
            (pc[t] = "pg_ensure" /\ pgPool = 0 /\ pc'[t] = "pg_query") =>
                /\ pgPool' = Len(pools) + 1
                /\ pools' = Append(pools, [conn |-> buildConnectionString(pgConfig),
                                           open |-> TRUE])]_vars

\* C29 happens: HadleConnection(CfgA) opened the first pool, DisconnectPostgreSQL
\* closed it, and an Execute that carries no postgresqlConn runs its query
\* on a second pool of the same configuration
C29_Witness ==
    \E t, u, v \in Threads :
        /\ req[t].op = "HadleConnection" /\ pc[t] = "done" /\ result[t].kind = "ok"
        /\ req[u].op = "DisconnectPostgreSQL" /\ pc[u] = "done"
        /\ Inside(v) /\ pc[v] = "pg_query" /\ req[v].conn = NilConfig
        /\ pgConfig = CfgA
        /\ Len(pools) = 2 /\ pgPool = 2
        /\ ~pools[1].open /\ pools[2].open
        /\ pools[1].conn = buildConnectionString(CfgA)
        /\ pools[2].conn = buildConnectionString(CfgA)

\* A step in which the CreatePgPool of thread t returns an error
CreatePgPoolFails(t) ==
    /\ pc[t] = "pg_command"
    /\ req[t].op \in {"HadleConnection", "CreatePgPool"}
    /\ pc'[t] = "done"
    /\ result'[t].kind = "error"

\* What the executor is left with when CreatePgPool(cfg) went as far as
\* building the pool: no pool, every pool closed, cfg bound
LeftUnconnected(t) ==
    /\ pgPool' = 0
    /\ pgConfig' = req[t].conn
    /\ Len(pools') >= Len(pools)
    /\ \A i \in 1..Len(pools') : ~pools'[i].open

\* C30: when CreatePgPool(cfg) fails, the executor is left with no pool and
\* with cfg as its bound configuration: the previously open pool has been
\* closed and the previous configuration is not restored.
C30_FailureLeavesNewConfigNoPool ==
    [][\A t \in Threads : CreatePgPoolFails(t) => LeftUnconnected(t)]_vars

\* C30, for the configurations CreatePgPool accepts: when CreatePgPool(cfg)
\* fails for a cfg that is not nil, the executor is left with no pool and
\* with cfg bound; CreatePgPool(nil) fails and changes nothing.
C30_FailureLeavesNewConfigNoPoolUnlessNil ==
    [][\A t \in Threads :
        CreatePgPoolFails(t) =>
            IF req[t].conn = NilConfig
            THEN UNCHANGED pgVars
            ELSE LeftUnconnected(t)]_vars

\* C30 happens: an Execute opened a pool for CfgA, CreatePgPool(CfgB) failed,
\* and the executor holds no pool, the pool of CfgA is closed and CfgB is bound
C30_Witness ==
    \E t, u \in Threads :
        /\ Returned(t) /\ req[t].conn = CfgA /\ result[t].exitCode = 0 /\ result[t].sql
        /\ req[u].op \in {"HadleConnection", "CreatePgPool"} /\ req[u].conn = CfgB
        /\ pc[u] = "done" /\ result[u].kind = "error"
        /\ pgPool = 0 /\ pgConfig = CfgB
        /\ Len(pools) >= 1 /\ pools[1].conn = buildConnectionString(CfgA)
        /\ \A i \in 1..Len(pools) : ~pools[i].open

====
